---- MODULE Spec2Model ----
(***************************************************************************)
(* Model of sotaog_public_api_client.Client                                *)
(* (src/sotaog_public_api_client/__init__.py).                             *)
(*                                                                         *)
(* One Client object, the caller that invokes its constructor and public   *)
(* methods one at a time, and the remote server, which answers every       *)
(* request with a nondeterministic status and body or fails in transport.  *)
(* Each action is one whole invocation of a method: it builds the request  *)
(* as the method does, puts it on the wire, and turns the answer into the  *)
(* value returned or the exception raised.                                 *)
(***************************************************************************)
EXTENDS Integers, Sequences, FiniteSets, TLC

VARIABLES
  client,    \* the Client instance: live, url, token, customer_id
  ctor,      \* the arguments of the last constructor invocation
  auth,      \* the server's answer to the last authenticate request
  call,      \* the last invocation: method name and arguments as passed
  wire,      \* the HTTP requests the last invocation put on the wire
  resp,      \* what the network answered to the last invocation
  result     \* how the last invocation ended: value returned or exception

vars == <<client, ctor, auth, call, wire, resp, result>>

----------------------------------------------------------------------------
(* Bounds of the model *)

MaxList == 2      \* length of a list the server returns
MaxSlashes == 1   \* trailing slashes on the base URL argument

(* Program constants *)

HTTP_OK == 200
HTTP_ACCEPTED == 202

----------------------------------------------------------------------------
(* Python values.  A value is a tagged record; Omitted marks an argument   *)
(* the caller did not pass, which then takes the parameter's default.      *)

PyVal(t, i, s, l) == [t |-> t, i |-> i, s |-> s, l |-> l]
PyNone == PyVal("none", 0, "", <<>>)
PyInt(n) == PyVal("int", n, "", <<>>)
PyStr(x) == PyVal("str", 0, x, <<>>)
PyList(q) == PyVal("list", 0, "", q)
PyDict(name) == PyVal("dict", 0, name, <<>>)
Omitted == PyVal("omitted", 0, "", <<>>)

\* The value a parameter holds inside the method.
Eff(arg, default) == IF arg = Omitted THEN default ELSE arg

\* Python truth value, as tested by `if x:`.
Truthy(v) ==
  CASE v.t = "none" -> FALSE
    [] v.t = "int" -> v.i # 0
    [] v.t = "str" -> v.s # ""
    [] v.t = "list" -> v.l # <<>>
    [] OTHER -> TRUE

\* Text of a value inside an f-string.
Format(v) ==
  CASE v.t = "str" -> v.s
    [] v.t = "none" -> "None"
    [] v.t = "int" -> ToString(v.i)
    [] OTHER -> v.s

\* A dict with d[k] = v set.
Put(d, k, v) == [x \in (DOMAIN d) \cup {k} |-> IF x = k THEN v ELSE d[x]]
EmptyDict == <<>>

\* `if v: d[k] = v`
PutAlways(d, k, v) == Put(d, k, v)
PutIf(d, k, v) == IF Truthy(v) THEN Put(d, k, v) ELSE d

----------------------------------------------------------------------------
(* str.rstrip(ch): drops every trailing occurrence of ch *)

RstripOnce(s, ch) ==
  IF s # <<>> /\ s[Len(s)] = ch THEN SubSeq(s, 1, Len(s) - 1) ELSE s

RECURSIVE Rstrip(_, _)
Rstrip(s, ch) ==
  IF s # <<>> /\ s[Len(s)] = ch
  THEN Rstrip(SubSeq(s, 1, Len(s) - 1), ch)
  ELSE s

RECURSIVE Slashes(_)
Slashes(n) == IF n = 0 THEN <<>> ELSE <<"/">> \o Slashes(n - 1)

----------------------------------------------------------------------------
(* Input domains *)

Hosts == {<<"https:", "/", "/", "api">>}
BaseUrls == {h \o Slashes(n) : h \in Hosts, n \in 0..MaxSlashes}
Tokens == {"T1", "T2"}
CustomerIds == {Omitted, PyStr(""), PyStr("C1")}
Ids == {PyStr("a1")}
Types == {Omitted, PyStr("wells")}
OptStrs == {Omitted, PyStr(""), PyStr("dt1")}
Facilities == {Omitted, PyStr(""), PyStr("F1")}
AssetTypes == {Omitted, PyStr("A1")}
GroupBys == {Omitted, PyStr(""), PyStr("facility")}
Timestamps == {Omitted, PyInt(0), PyInt(5)}
Sorts == {Omitted, PyStr(""), PyStr("asc")}
Limits == {Omitted, PyInt(0), PyInt(10)}
DatatypeLists == {Omitted, PyList(<<>>), PyList(<<"dt1">>)}
Statuses == {HTTP_OK, HTTP_ACCEPTED, 500}

\* Lists of at most n elements of S.
RECURSIVE ListsUpTo(_, _)
ListsUpTo(S, n) ==
  IF n = 0 THEN {<<>>}
  ELSE LET shorter == ListsUpTo(S, n - 1)
       IN shorter \cup {Append(q, x) : q \in {p \in shorter : Len(p) = n - 1}, x \in S}

----------------------------------------------------------------------------
(* The network.  An answer is a transport failure (ok = FALSE) or a        *)
(* response with a status and a body that is JSON or not.                  *)

Net(ok, status, isjson, json) ==
  [ok |-> ok, status |-> status, isjson |-> isjson, json |-> json]
TransportFailure == Net(FALSE, 0, FALSE, PyNone)
NetsOf(Bodies) ==
  {TransportFailure}
    \cup {Net(TRUE, s, FALSE, PyNone) : s \in Statuses}
    \cup {Net(TRUE, s, TRUE, b) : s \in Statuses, b \in Bodies}

\* Opaque JSON documents.
Nets == NetsOf({PyDict("J1")})
\* Answers of /v1/authenticate: a mapping with or without access_token.
AuthNets == NetsOf({[access_token |-> t] : t \in Tokens} \cup {EmptyDict})
\* Asset records: the facility and asset_type fields are optional.
AssetRecords ==
  { [asset_type |-> PyStr("A2")],
    [facility |-> PyStr("F1"), asset_type |-> PyStr("A1")],
    [facility |-> PyStr("F2")] }
AssetNets ==
  {TransportFailure}
    \cup {Net(TRUE, s, FALSE, PyNone) : s \in Statuses}
    \cup {Net(TRUE, s, TRUE, <<>>) : s \in Statuses \ {HTTP_OK}}
    \cup {Net(TRUE, HTTP_OK, TRUE, b) : b \in ListsUpTo(AssetRecords, MaxList)}
\* SWD network records: the facilities field is optional.
SwdRecords ==
  { [name |-> PyStr("n0")],
    [facilities |-> <<PyStr("F1"), PyStr("F2")>>],
    [facilities |-> <<PyStr("F3")>>] }
SwdNets ==
  {TransportFailure}
    \cup {Net(TRUE, s, FALSE, PyNone) : s \in Statuses}
    \cup {Net(TRUE, s, TRUE, <<>>) : s \in Statuses \ {HTTP_OK}}
    \cup {Net(TRUE, HTTP_OK, TRUE, b) : b \in ListsUpTo(SwdRecords, MaxList)}

----------------------------------------------------------------------------
(* Requests and outcomes *)

Request(method, url, headers, params, enc, body, credentials) ==
  [method |-> method, url |-> url, headers |-> headers, params |-> params,
   enc |-> enc, body |-> body, auth |-> credentials]
Get(url, headers, params) ==
  Request("GET", url, headers, params, "none", EmptyDict, <<>>)
PostJson(url, headers, body) ==
  Request("POST", url, headers, EmptyDict, "json", body, <<>>)

Return(v) == [kind |-> "return", error |-> "", value |-> v]
Raise(e) == [kind |-> "raise", error |-> e, value |-> PyNone]

\* requests.Session.get/post with no retry adapter and no cache: the
\* request goes on the wire once, whatever the answer turns out to be.
TransmitRetry(r, net) ==
  IF ~net.ok \/ net.status # HTTP_OK THEN <<r, r>> ELSE <<r>>
Transmit(r, net) == <<r>>

NoClient == [live |-> FALSE, url |-> <<>>, token |-> "", customer_id |-> PyNone]

Init ==
  /\ client = NoClient
  /\ ctor = [url |-> <<>>, customer_id |-> Omitted]
  /\ auth = TransportFailure
  /\ call = [op |-> "", args |-> EmptyDict]
  /\ wire = <<>>
  /\ resp = TransportFailure
  /\ result = Return(PyNone)

\* The bookkeeping common to every invocation.
Invoke(op, args, r, net, res) ==
  /\ call' = [op |-> op, args |-> args]
  /\ wire' = Transmit(r, net)
  /\ resp' = net
  /\ result' = res

----------------------------------------------------------------------------
(* Client.__init__ *)

\* Outcome of the constructor: the token is read from the body only on 200.
InitResultAny2xx(net) ==
  IF ~net.ok THEN Raise("ConnectionError")
  ELSE IF net.status \in {HTTP_OK, HTTP_ACCEPTED} THEN
    IF ~net.isjson THEN Raise("JSONDecodeError")
    ELSE IF "access_token" \notin DOMAIN net.json THEN Raise("KeyError")
    ELSE Return(PyNone)
  ELSE Raise("Client_Exception")
InitResult(net) ==
  IF ~net.ok THEN Raise("ConnectionError")
  ELSE IF net.status = HTTP_OK THEN
    IF ~net.isjson THEN Raise("JSONDecodeError")
    ELSE IF "access_token" \notin DOMAIN net.json THEN Raise("KeyError")
    ELSE Return(PyNone)
  ELSE Raise("Client_Exception")

\* self.url = url.rstrip('/')
init_url(url) == Rstrip(url, "/")

\* The caller constructs until a construction succeeds, then keeps that
\* Client: a constructor that raises binds no instance.

Client_init ==
  /\ ~client.live
  /\ \E url \in BaseUrls, customer_id \in CustomerIds, net \in AuthNets :
       LET self_url == init_url(url)
           data == [grant_type |-> PyStr("client_credentials")]
           r == Request("POST", self_url \o <<"/", "v1", "/", "authenticate">>,
                        EmptyDict, EmptyDict, "form", data,
                        <<"client_id", "client_secret">>)
           res == InitResult(net)
       IN /\ Invoke("__init__", [url |-> url, customer_id |-> customer_id],
                    r, net, res)
          /\ ctor' = [url |-> url, customer_id |-> customer_id]
          /\ auth' = net
          /\ client' = IF res.kind = "return"
                       THEN [live |-> TRUE, url |-> self_url,
                             token |-> net.json.access_token,
                             customer_id |-> Eff(customer_id, PyNone)]
                       ELSE client

----------------------------------------------------------------------------
(* Client._get_headers *)

HeadersAlwaysCustomer(self) ==
  Put([authorization |-> PyStr("Bearer " \o self.token)],
      "x-sotaog-customer-id", self.customer_id)
_get_headers(self) ==
  LET headers == [authorization |-> PyStr("Bearer " \o self.token)]
  IN IF Truthy(self.customer_id)
     THEN Put(headers, "x-sotaog-customer-id", self.customer_id)
     ELSE headers

----------------------------------------------------------------------------
(* The read methods *)

\* `if result.status_code == 200: return result.json()
\*  else: raise Client_Exception(...)`
ReadResult(net) ==
  IF ~net.ok THEN Raise("ConnectionError")
  ELSE IF net.status = HTTP_OK THEN
    IF net.isjson THEN Return(net.json) ELSE Raise("JSONDecodeError")
  ELSE Raise("Client_Exception")

\* A method of a live Client may be invoked.
Usable == client.live

\* An invocation of a method other than the constructor.
Method(op, args, r, net, res) ==
  /\ Invoke(op, args, r, net, res)
  /\ UNCHANGED <<client, ctor, auth>>

V1(self, segments) == self.url \o <<"/", "v1">> \o segments

get_alarm_services ==
  /\ Usable
  /\ \E net \in Nets :
       Method("get_alarm_services", EmptyDict,
              Get(V1(client, <<"/", "alarm-services">>), _get_headers(client), EmptyDict),
              net, ReadResult(net))

get_alarm_service ==
  /\ Usable
  /\ \E alarm_service_id \in Ids, net \in Nets :
       Method("get_alarm_service", [alarm_service_id |-> alarm_service_id],
              Get(V1(client, <<"/", "alarm-services", "/", Format(alarm_service_id)>>),
                  _get_headers(client), EmptyDict),
              net, ReadResult(net))

get_alarms ==
  /\ Usable
  /\ \E net \in Nets :
       Method("get_alarms", EmptyDict,
              Get(V1(client, <<"/", "alarms">>), _get_headers(client), EmptyDict),
              net, ReadResult(net))

get_alarm_url(self, asset_id, datatype) ==
  LET url == V1(self, <<"/", "alarms", "/", Format(asset_id)>>)
  IN IF Truthy(datatype) THEN url \o <<"/", Format(datatype)>> ELSE url

get_alarm ==
  /\ Usable
  /\ \E asset_id \in Ids, datatype \in OptStrs, net \in Nets :
       Method("get_alarm", [asset_id |-> asset_id, datatype |-> datatype],
              Get(get_alarm_url(client, asset_id, Eff(datatype, PyNone)),
                  _get_headers(client), EmptyDict),
              net, ReadResult(net))

get_facilities ==
  /\ Usable
  /\ \E net \in Nets :
       Method("get_facilities", EmptyDict,
              Get(V1(client, <<"/", "facilities">>), _get_headers(client), EmptyDict),
              net, ReadResult(net))

get_facility ==
  /\ Usable
  /\ \E facility_id \in Ids, net \in Nets :
       Method("get_facility", [facility_id |-> facility_id],
              Get(V1(client, <<"/", "facilities", "/", Format(facility_id)>>),
                  _get_headers(client), EmptyDict),
              net, ReadResult(net))

get_asset ==
  /\ Usable
  /\ \E asset_id \in Ids, type \in Types, net \in Nets :
       Method("get_asset", [asset_id |-> asset_id, type |-> type],
              Get(V1(client, <<"/", Format(Eff(type, PyStr("assets"))),
                               "/", Format(asset_id)>>),
                  _get_headers(client), EmptyDict),
              net, ReadResult(net))
----------------------------------------------------------------------------
(* Client.get_assets *)

\* [asset for asset in assets if field in asset and asset[field] == value]
FilterFieldKeepsMissing(assets, field, value) ==
  SelectSeq(assets, LAMBDA asset : field \notin DOMAIN asset \/ asset[field] = value)
FilterField(assets, field, value) ==
  SelectSeq(assets, LAMBDA asset : field \in DOMAIN asset /\ asset[field] = value)

get_assets_result(net, facility, asset_type) ==
  IF ~net.ok THEN Raise("ConnectionError")
  ELSE IF net.status = HTTP_OK THEN
    IF ~net.isjson THEN Raise("JSONDecodeError")
    ELSE LET assets0 == net.json
             assets1 == IF Truthy(facility)
                        THEN FilterField(assets0, "facility", facility)
                        ELSE assets0
             assets2 == IF Truthy(asset_type)
                        THEN FilterField(assets1, "asset_type", asset_type)
                        ELSE assets1
         IN Return(assets2)
  ELSE Raise("Client_Exception")

get_assets(Calls, Answers) ==
  /\ Usable
  /\ \E a \in Calls, net \in Answers :
       Method("get_assets", a,
              Get(V1(client, <<"/", Format(Eff(a.type, PyStr("assets")))>>),
                  _get_headers(client), EmptyDict),
              net,
              get_assets_result(net, Eff(a.facility, PyNone), Eff(a.asset_type, PyNone)))

----------------------------------------------------------------------------
(* Client.get_datatypes, Client.get_datatype *)

\* `params = {}; if group_by: params['group_by']: group_by` -- the last
\* statement is an annotation, not an assignment: params stays empty.
get_datatypes_params_assigned(group_by) == PutIf(EmptyDict, "group_by", group_by)
get_datatypes_params(group_by) == EmptyDict

get_datatypes ==
  /\ Usable
  /\ \E group_by \in GroupBys, net \in Nets :
       Method("get_datatypes", [group_by |-> group_by],
              Get(V1(client, <<"/", "datatypes">>), _get_headers(client),
                  get_datatypes_params(Eff(group_by, PyStr("asset")))),
              net, ReadResult(net))

get_datatype ==
  /\ Usable
  /\ \E datatype_id \in Ids, net \in Nets :
       Method("get_datatype", [datatype_id |-> datatype_id],
              Get(V1(client, <<"/", "datatypes", "/", Format(datatype_id)>>),
                  _get_headers(client), [group_by |-> PyStr("asset")]),
              net, ReadResult(net))

----------------------------------------------------------------------------
(* Client.get_datapoints, Client.get_asset_datapoints *)

get_datapoints_body(asset_datatypes, start_ts, end_ts, sort, limit) ==
  LET b0 == [asset_datatypes |-> asset_datatypes]
      b1 == PutIf(b0, "start_ts", start_ts)
      b2 == PutIf(b1, "end_ts", end_ts)
      b3 == PutIf(b2, "sort", sort)
  IN PutIf(b3, "limit", limit)

\* On a status other than 200 the body is parsed for the debug log before
\* the Client_Exception is raised.
get_datapoints_result(net) ==
  IF ~net.ok THEN Raise("ConnectionError")
  ELSE IF net.status = HTTP_OK THEN
    IF net.isjson THEN Return(net.json) ELSE Raise("JSONDecodeError")
  ELSE IF ~net.isjson THEN Raise("JSONDecodeError")
  ELSE Raise("Client_Exception")

get_datapoints(Calls, Answers) ==
  /\ Usable
  /\ \E a \in Calls, net \in Answers :
       Method("get_datapoints", a,
              PostJson(V1(client, <<"/", "datapoints">>), _get_headers(client),
                       get_datapoints_body(a.asset_datatypes,
                                           Eff(a.start_ts, PyNone), Eff(a.end_ts, PyNone),
                                           Eff(a.sort, PyStr("desc")),
                                           Eff(a.limit, PyInt(100)))),
              net, get_datapoints_result(net))

get_asset_datapoints_params(datatypes, start_ts, end_ts, sort, limit) ==
  LET p1 == PutIf(EmptyDict, "datatypes", datatypes)
      p2 == PutIf(p1, "start_ts", start_ts)
      p3 == PutIf(p2, "end_ts", end_ts)
      p4 == PutIf(p3, "sort", sort)
  IN PutIf(p4, "limit", limit)

get_asset_datapoints(Calls, Answers) ==
  /\ Usable
  /\ \E a \in Calls, net \in Answers :
       Method("get_asset_datapoints", a,
              Get(V1(client, <<"/", "datapoints", "/", Format(a.asset_id)>>),
                  _get_headers(client),
                  get_asset_datapoints_params(Eff(a.datatypes, PyList(<<>>)),
                                              Eff(a.start_ts, PyNone),
                                              Eff(a.end_ts, PyNone),
                                              Eff(a.sort, PyStr("desc")),
                                              Eff(a.limit, PyInt(100)))),
              net, ReadResult(net))

----------------------------------------------------------------------------
(* Client.get_swd_networks *)

\* `facility in swd_network['facilities']`
Contains(q, x) == \E i \in 1..Len(q) : q[i] = x

\* The comprehension subscripts every record with 'facilities': a record
\* without that key raises KeyError.
get_swd_networks_result(net, facility) ==
  IF ~net.ok THEN Raise("ConnectionError")
  ELSE IF net.status = HTTP_OK THEN
    IF ~net.isjson THEN Raise("JSONDecodeError")
    ELSE LET swd_networks == net.json
         IN IF Truthy(facility)
            THEN IF \E i \in 1..Len(swd_networks) :
                      "facilities" \notin DOMAIN swd_networks[i]
                 THEN Raise("KeyError")
                 ELSE Return(SelectSeq(swd_networks,
                        LAMBDA swd_network : Contains(swd_network.facilities, facility)))
            ELSE Return(swd_networks)
  ELSE Raise("Client_Exception")

get_swd_networks(Calls, Answers) ==
  /\ Usable
  /\ \E a \in Calls, net \in Answers :
       Method("get_swd_networks", a,
              Get(V1(client, <<"/", "swd-networks">>), _get_headers(client), EmptyDict),
              net, get_swd_networks_result(net, Eff(a.facility, PyNone)))

----------------------------------------------------------------------------
(* Client.get_truck_tickets *)

get_truck_tickets_params(facility, type, start_ts, end_ts) ==
  LET p1 == PutIf(EmptyDict, "start_ts", start_ts)
      p2 == PutIf(p1, "end_ts", end_ts)
      p3 == PutIf(p2, "type", type)
  IN PutIf(p3, "facility", facility)

get_truck_tickets(Calls, Answers) ==
  /\ Usable
  /\ \E a \in Calls, net \in Answers :
       Method("get_truck_tickets", a,
              Get(V1(client, <<"/", "truck-tickets">>), _get_headers(client),
                  get_truck_tickets_params(Eff(a.facility, PyNone), Eff(a.type, PyNone),
                                           Eff(a.start_ts, PyNone), Eff(a.end_ts, PyNone))),
              net, ReadResult(net))

----------------------------------------------------------------------------
(* Client.post_datapoints *)

\* On a status other than 202 the body is parsed for the log, then a plain
\* Exception is raised; on 202 the method falls off its end.
post_datapoints_result(net) ==
  IF ~net.ok THEN Raise("ConnectionError")
  ELSE IF net.status # HTTP_ACCEPTED THEN
    IF ~net.isjson THEN Raise("JSONDecodeError") ELSE Raise("Exception")
  ELSE Return(PyNone)

post_datapoints ==
  /\ Usable
  /\ \E asset_id \in Ids, net \in Nets :
       LET datapoints == PyList(<<"dp1">>)
       IN Method("post_datapoints", [asset_id |-> asset_id, datapoints |-> datapoints],
                 PostJson(V1(client, <<"/", "datapoints", "/", Format(asset_id)>>),
                          _get_headers(client), datapoints),
                 net, post_datapoints_result(net))

----------------------------------------------------------------------------
(* The callers.  The methods with many optional parameters or with list    *)
(* answers are driven three ways: by a caller that uses every method with  *)
(* either no optional argument or all of them (Spec), by one that tries    *)
(* every combination of optional arguments against a server that answers   *)
(* 200 (SpecParams), and by one that tries the filtering methods against   *)
(* every list the server may return (SpecLists).                           *)

AllDatapointsCalls ==
  [asset_datatypes : {PyDict("asset_datatypes")}, start_ts : Timestamps,
   end_ts : Timestamps, sort : Sorts, limit : Limits]
AllAssetDatapointsCalls ==
  [asset_id : Ids, datatypes : DatatypeLists, start_ts : Timestamps,
   end_ts : Timestamps, sort : Sorts, limit : Limits]
AllTruckTicketsCalls ==
  [facility : Facilities, type : OptStrs, start_ts : Timestamps, end_ts : Timestamps]
AllAssetsCalls == [type : {Omitted}, facility : Facilities, asset_type : AssetTypes]
AllSwdCalls == [facility : Facilities]

\* No optional argument, or every optional argument with a true value.
Bare(Calls) == {a \in Calls : \A k \in DOMAIN a : a[k] = Omitted \/ a[k].t = "dict" \/ a[k] \in Ids}
Full(Calls) == {a \in Calls : \A k \in DOMAIN a : a[k] # Omitted /\ Truthy(a[k])}
FewDatapointsCalls == Bare(AllDatapointsCalls) \cup Full(AllDatapointsCalls)
FewAssetDatapointsCalls == Bare(AllAssetDatapointsCalls) \cup Full(AllAssetDatapointsCalls)
FewTruckTicketsCalls == Bare(AllTruckTicketsCalls) \cup Full(AllTruckTicketsCalls)
FewAssetsCalls ==
  [type : Types, facility : {Omitted}, asset_type : {Omitted}]
    \cup [type : {Omitted}, facility : {PyStr("F1")}, asset_type : {PyStr("A1")}]
FewSwdCalls == [facility : {Omitted, PyStr("F1")}]
OkNets == {Net(TRUE, HTTP_OK, TRUE, PyDict("J1"))}

Next ==
  \/ Client_init
  \/ get_alarm_services
  \/ get_alarm_service
  \/ get_alarms
  \/ get_alarm
  \/ get_facilities
  \/ get_facility
  \/ get_asset
  \/ get_assets(FewAssetsCalls, AssetNets)
  \/ get_datatypes
  \/ get_datatype
  \/ get_datapoints(FewDatapointsCalls, Nets)
  \/ get_asset_datapoints(FewAssetDatapointsCalls, Nets)
  \/ get_swd_networks(FewSwdCalls, SwdNets)
  \/ get_truck_tickets(FewTruckTicketsCalls, Nets)
  \/ post_datapoints

Spec == Init /\ [][Next]_vars

NextParams ==
  \/ Client_init
  \/ get_alarm
  \/ get_datapoints(AllDatapointsCalls, OkNets)
  \/ get_asset_datapoints(AllAssetDatapointsCalls, OkNets)
  \/ get_truck_tickets(AllTruckTicketsCalls, OkNets)

SpecParams == Init /\ [][NextParams]_vars

NextLists ==
  \/ Client_init
  \/ get_assets(AllAssetsCalls, AssetNets)
  \/ get_swd_networks(AllSwdCalls, SwdNets)

SpecLists == Init /\ [][NextLists]_vars

----------------------------------------------------------------------------
(* Properties *)

\* The request the last invocation sent.
Sent == wire[1]
Invoked == call.op # ""
ReadOps ==
  {"get_alarm_services", "get_alarm_service", "get_alarms", "get_alarm",
   "get_facilities", "get_facility", "get_asset", "get_assets", "get_datatypes",
   "get_datatype", "get_datapoints", "get_asset_datapoints", "get_swd_networks",
   "get_truck_tickets"}
\* An argument the caller passed, and one that is moreover not empty.
Supplied(arg) == arg # Omitted /\ arg # PyNone
IsFalsy(v) == v \in {PyNone, PyInt(0), PyStr(""), PyList(<<>>)}
NonEmpty(arg) == arg # Omitted /\ ~IsFalsy(arg)
HasField(r, field, v) == field \in DOMAIN r /\ r[field] = v
Answered200 == resp.ok /\ resp.status = HTTP_OK /\ resp.isjson

(* C1: construction succeeds only when the authenticate call answers 200:  *)
(* a live Client exists only after a 200 answer and holds the access_token *)
(* of that answer; any other status raises Client_Exception and leaves no  *)
(* Client.                                                                 *)
C1_ConstructionOnlyOn200 ==
  /\ client.live =>
       /\ auth.ok /\ auth.status = HTTP_OK /\ auth.isjson
       /\ "access_token" \in DOMAIN auth.json
       /\ client.token = auth.json.access_token
  /\ (call.op = "__init__" /\ resp.ok /\ resp.status # HTTP_OK) =>
       /\ result = Raise("Client_Exception")
       /\ ~client.live

C1_Witness ==
  /\ call.op = "__init__" /\ resp.ok /\ resp.status = 500
  /\ result = Raise("Client_Exception")
  /\ ~client.live

\* What every request of a method must carry, given when the customer
\* header is due.
HeadersCarry(customerDue) ==
  LET h == Sent.headers
  IN /\ h.authorization = PyStr("Bearer " \o auth.json.access_token)
     /\ ("x-sotaog-customer-id" \in DOMAIN h) <=> customerDue
     /\ "x-sotaog-customer-id" \in DOMAIN h =>
          h["x-sotaog-customer-id"] = ctor.customer_id
ClientUnchanged ==
  /\ client.token = auth.json.access_token
  /\ client.customer_id = Eff(ctor.customer_id, PyNone)
  /\ client.url = SubSeq(ctor.url, 1, Len(client.url))

(* C2 as stated: every request of a method carries authorization: Bearer T *)
(* and carries x-sotaog-customer-id exactly when a customer ID was         *)
(* supplied at construction.                                               *)
C2_HeaderWheneverSupplied ==
  (client.live /\ call.op # "__init__") =>
    ClientUnchanged /\ HeadersCarry(Supplied(ctor.customer_id))

(* C2 amended: every request of a method, after any earlier invocations,   *)
(* carries authorization: Bearer T with T the access_token of the          *)
(* authentication answer, and carries x-sotaog-customer-id with the        *)
(* construction-time customer ID exactly when a non-empty customer ID was  *)
(* supplied; token, base URL and customer ID stay as constructed.          *)
C2_HeaderWhenNonEmpty ==
  (client.live /\ call.op # "__init__") =>
    ClientUnchanged /\ HeadersCarry(NonEmpty(ctor.customer_id))

C2_Witness ==
  /\ client.live /\ call.op = "post_datapoints"
  /\ ctor.customer_id = PyStr("C1")
  /\ Sent.headers["x-sotaog-customer-id"] = PyStr("C1")
  /\ Sent.headers.authorization = PyStr("Bearer T2")

(* C3: post_datapoints returns None exactly on 202 and raises              *)
(* Client_Exception on every other status.  (Stated for answers with a     *)
(* JSON body, which the method's log statement can parse.)                 *)
C3_PostRaisesClientException ==
  (call.op = "post_datapoints" /\ resp.ok /\ resp.isjson) =>
    IF resp.status = HTTP_ACCEPTED
    THEN result = Return(PyNone)
    ELSE result = Raise("Client_Exception")

(* C4: every read method returns the parsed body on 200 and raises         *)
(* Client_Exception, and nothing else, on every other status, whatever     *)
(* the body is.  (On 200 the filtering methods are held to the parsed body *)
(* only when called without a filter.)                                     *)
Unfiltered ==
  \A k \in {"facility", "asset_type"} \cap DOMAIN call.args : ~NonEmpty(call.args[k])
C4_ReadsRaiseClientException ==
  (call.op \in ReadOps /\ resp.ok) =>
    /\ resp.status # HTTP_OK => result = Raise("Client_Exception")
    /\ (Answered200 /\ (call.op \in {"get_assets", "get_swd_networks"} => Unfiltered)) =>
         result = Return(resp.json)

\* Where a method puts its optional parameters.
Payload == IF call.op = "get_datapoints" THEN Sent.body ELSE Sent.params
OptionalParams ==
  CASE call.op = "get_datapoints" -> {"start_ts", "end_ts", "sort", "limit"}
    [] call.op = "get_asset_datapoints" ->
         {"datatypes", "start_ts", "end_ts", "sort", "limit"}
    [] call.op = "get_truck_tickets" -> {"facility", "type", "start_ts", "end_ts"}
    [] OTHER -> {}
SignatureDefault(k) ==
  CASE k = "sort" -> PyStr("desc")
    [] k = "limit" -> PyInt(100)
    [] k = "datatypes" -> PyList(<<>>)
    [] OTHER -> PyNone
AlarmUrl(withDatatype) ==
  client.url \o <<"/", "v1", "/", "alarms", "/", call.args.asset_id.s>>
    \o (IF withDatatype THEN <<"/", call.args.datatype.s>> ELSE <<>>)

(* C5 as stated: an omitted optional parameter leaves no key (or path      *)
(* segment) in the request, a supplied one is present with its value.      *)
C5_KeyIffSupplied ==
  /\ \A k \in OptionalParams :
       IF call.args[k] = Omitted
       THEN k \notin DOMAIN Payload
       ELSE k \in DOMAIN Payload /\ Payload[k] = call.args[k]
  /\ call.op = "get_alarm" => Sent.url = AlarmUrl(call.args.datatype # Omitted)

(* C5 amended: the key (or path segment) of an optional parameter is       *)
(* present exactly when the parameter's value inside the method - the      *)
(* supplied value, or the signature default when omitted (sort 'desc',     *)
(* limit 100, otherwise None or []) - is true in Python's sense, and then  *)
(* it holds that value.                                                    *)
C5_KeyIffEffectiveValueTrue ==
  /\ \A k \in OptionalParams :
       LET v == IF call.args[k] = Omitted THEN SignatureDefault(k) ELSE call.args[k]
       IN IF IsFalsy(v)
          THEN k \notin DOMAIN Payload
          ELSE k \in DOMAIN Payload /\ Payload[k] = v
  /\ call.op = "get_alarm" => Sent.url = AlarmUrl(NonEmpty(call.args.datatype))

C5_Witness ==
  /\ call.op = "get_datapoints"
  /\ call.args.sort = Omitted /\ Sent.body.sort = PyStr("desc")
  /\ call.args.limit = PyInt(10) /\ Sent.body.limit = PyInt(10)
  /\ call.args.start_ts = PyInt(0) /\ "start_ts" \notin DOMAIN Sent.body
  /\ call.args.end_ts = Omitted /\ "end_ts" \notin DOMAIN Sent.body

\* The records of the answer that pass the filters of get_assets that are due.
AssetsExpected(facilityDue, typeDue) ==
  SelectSeq(resp.json,
            LAMBDA r : /\ facilityDue => HasField(r, "facility", call.args.facility)
                       /\ typeDue => HasField(r, "asset_type", call.args.asset_type))

(* C6 as stated: on 200 get_assets returns, in server order, the records   *)
(* that satisfy every supplied filter.                                     *)
C6_FiltersWheneverSupplied ==
  (call.op = "get_assets" /\ Answered200) =>
    result = Return(AssetsExpected(Supplied(call.args.facility),
                                   Supplied(call.args.asset_type)))

(* C6 amended: on 200 get_assets returns, in server order, exactly the     *)
(* records that satisfy every supplied non-empty filter (a record passes a *)
(* filter iff it has the field and the field equals the requested value);  *)
(* with no filter, or only empty ones, the list is returned unmodified.    *)
C6_FiltersWhenNonEmpty ==
  (call.op = "get_assets" /\ Answered200) =>
    result = Return(AssetsExpected(NonEmpty(call.args.facility),
                                   NonEmpty(call.args.asset_type)))

C6_Witness ==
  /\ call.op = "get_assets" /\ Answered200
  /\ call.args.facility = PyStr("F1") /\ call.args.asset_type = Omitted
  /\ resp.json = <<[facility |-> PyStr("F2")],
                   [facility |-> PyStr("F1"), asset_type |-> PyStr("A1")]>>
  /\ result = Return(<<[facility |-> PyStr("F1"), asset_type |-> PyStr("A1")]>>)

(* C7: on 200 get_swd_networks returns, in server order, the records whose *)
(* facilities contain the requested facility, also when some records carry *)
(* no facilities field; with no facility the list is returned unmodified.  *)
(* (Stated for a facility argument that is omitted or not empty.)          *)
C7_SwdFilterTotal ==
  (call.op = "get_swd_networks" /\ Answered200
     /\ (Supplied(call.args.facility) => NonEmpty(call.args.facility))) =>
    result = Return(IF NonEmpty(call.args.facility)
                    THEN SelectSeq(resp.json,
                           LAMBDA r : /\ "facilities" \in DOMAIN r
                                      /\ Contains(r.facilities, call.args.facility))
                    ELSE resp.json)

\* The base URL a Client constructed from u stores, and the URL it would
\* request for the path of the request last sent.
PathSent == SubSeq(Sent.url, Len(init_url(ctor.url)) + 1, Len(Sent.url))
UrlFrom(u) == init_url(u) \o PathSent
EndsInSlash(u) == u # <<>> /\ u[Len(u)] = "/"

(* C8: a Client constructed from the base URL with one more, or one less,  *)
(* trailing slash issues the same URL for the authenticate call and for    *)
(* every method; the stored base URL never ends in a slash.                *)
C8_TrailingSlashIrrelevant ==
  /\ client.live => ~EndsInSlash(client.url) /\ client.url = init_url(ctor.url)
  /\ Invoked =>
       /\ Sent.url = UrlFrom(ctor.url \o <<"/">>)
       /\ EndsInSlash(ctor.url) =>
            Sent.url = UrlFrom(SubSeq(ctor.url, 1, Len(ctor.url) - 1))
       /\ PathSent[1] = "/" /\ PathSent[2] = "v1"
       /\ ~EndsInSlash(SubSeq(Sent.url, 1, Len(Sent.url) - Len(PathSent)))

C8_Witness ==
  /\ client.live /\ EndsInSlash(ctor.url)
  /\ call.op = "get_asset"
  /\ Sent.url = <<"https:", "/", "/", "api", "/", "v1", "/", "wells", "/", "a1">>

(* C9: every invocation of the constructor or a method puts exactly one    *)
(* request on the wire, whatever the answer (no retry, no reuse of an      *)
(* earlier answer), and a transport failure raises the transport's error,  *)
(* not Client_Exception.                                                   *)
C9_OneRequestPerInvocation ==
  Invoked =>
    /\ Len(wire) = 1
    /\ ~resp.ok => result = Raise("ConnectionError")
    /\ resp.ok => result # Raise("ConnectionError")

C9_Witness ==
  /\ call.op = "get_facilities" /\ ~resp.ok
  /\ Len(wire) = 1 /\ result = Raise("ConnectionError")

(* C10: get_datatypes never sends group_by, whatever its argument;         *)
(* get_datatype always sends group_by=asset.                               *)
C10_GroupByDiscarded ==
  /\ call.op = "get_datatypes" =>
       /\ "group_by" \notin DOMAIN Sent.params
       /\ Sent.url = client.url \o <<"/", "v1", "/", "datatypes">>
  /\ call.op = "get_datatype" =>
       /\ Sent.params = [group_by |-> PyStr("asset")]
       /\ Sent.url = client.url \o <<"/", "v1", "/", "datatypes", "/",
                                     call.args.datatype_id.s>>

C10_Witness ==
  /\ call.op = "get_datatypes" /\ call.args.group_by = PyStr("facility")
  /\ Sent.params = EmptyDict

====
